---- MODULE Spec2Model ----
(***************************************************************************)
(* A model of trade_database_manager: the SQL table manager                *)
(* (core/sql/sqlmanager.py) on top of a PostgreSQL database, and the       *)
(* instrument metadata store (manager/metadata_sql.py) built on it.        *)
(*                                                                         *)
(* The database is a function from table names to tables.  A table has a   *)
(* set of columns, a bag of rows and a set of indexes.  A row is a function *)
(* from the columns that hold a value to that value: a column outside the  *)
(* row's domain is NULL.                                                   *)
(***************************************************************************)
EXTENDS Integers, Sequences, FiniteSets, Bags, TLC

VARIABLES
    db,      \* the database: table name -> table
    hist,    \* the last two completed calls, oldest first
    ncalls,  \* number of calls made so far
    pc,      \* "idle", or "type_writes" inside update_instrument_metadata
    job,     \* the update_instrument_metadata call under way
    attrs,   \* class -> the class attributes _instance and _manager
    nmanagers \* number of SqlManager objects (engines) created so far

vars == <<db, hist, ncalls, pc, job, attrs, nmanagers>>

-----------------------------------------------------------------------------
(* Bounds of the model. *)

\* a run makes at most this many calls
MaxCalls == 3
\* a run makes at most this many calls of the metadata store
MaxMetaCalls == 2
\* an insert is only tried while the table would hold at most this many rows
MaxRows == 4
\* most calls of a run that renames columns: one insert that creates the
\* table, then calls of rename_column
MaxRenameCalls == 3
\* most constructions of the metadata store classes in a run
MaxConstructions == 5

\* the table the SqlManager calls of Spec work on, its key and its columns
GenericTable == "t"
GenericKeys == {"k1", "k2"}
GenericKeySeqs == {<<"k1">>, <<"k2">>, <<"k1", "k2">>, <<"k1", "k1">>}
GenericValues == {"a", "b"}
GenericColumnSets == {{"v"}, {"v", "w"}}
ExtraIndexChoices ==
    { [unique |-> <<>>, non_unique |-> <<>>],
      [unique |-> <<"v">>, non_unique |-> <<>>],
      [unique |-> <<>>, non_unique |-> <<"w">>] }

TableNames == {GenericTable, "instruments", "instruments_stk", "instruments_etf", "instruments_lof"}

-----------------------------------------------------------------------------
(* The database engine: tables, rows, indexes. *)

Range(s) == {s[i] : i \in 1..Len(s)}

NoTable == [exists |-> FALSE, cols |-> {}, rows |-> EmptyBag, indexes |-> {}]

\* the values of row r on the columns cs that are not NULL in it
Proj(r, cs) == [c \in (cs \cap DOMAIN r) |-> r[c]]

\* r has a value in every column of cs
NotNullOn(r, cs) == cs \subseteq DOMAIN r

\* rows of the bag that agree with row r on the columns cs (NULLs never agree)
Matching(rows, r, cs) ==
    {e \in BagToSet(rows) : NotNullOn(e, cs) /\ NotNullOn(r, cs) /\ Proj(e, cs) = Proj(r, cs)}

\* a unique index admits the rows: no two rows agree on all its columns
IndexAdmits(ix, rows) ==
    ~ix.unique \/
    \A r \in BagToSet(rows) :
        NotNullOn(r, Range(ix.cols)) =>
            /\ CopiesIn(r, rows) = 1
            /\ Matching(rows, r, Range(ix.cols)) = {r}

AllIndexesAdmit(tbl, rows) == \A ix \in tbl.indexes : IndexAdmits(ix, rows)

BagOfSeq(s) ==
    LET RECURSIVE Go(_)
        Go(i) == IF i = 0 THEN EmptyBag ELSE Go(i - 1) (+) SetToBag({s[i]})
    IN Go(Len(s))

\* a unique index whose columns are exactly cs (what ON CONFLICT (cs) infers)
HasUniqueIndexOn(tbl, cs) ==
    \E ix \in tbl.indexes : ix.unique /\ Range(ix.cols) = cs /\ ix.cols # <<>>

-----------------------------------------------------------------------------
(* pandas DataFrame.to_sql and the two insertion methods.                  *)
(* A data frame is [names: the index names, cols: its columns, rows: a     *)
(* sequence of rows over names and cols].  With index=True the index       *)
(* levels are written as columns, so a row of the frame is a row of the    *)
(* table.  Every operation returns [tbl, raised]: the table it leaves and  *)
(* the exception it raised ("none" when it returned).                      *)

Ok(tbl) == [tbl |-> tbl, raised |-> "none"]
Raise(tbl, e) == [tbl |-> tbl, raised |-> e]

\* the column names pandas hands to the insertion method: index levels, then columns
FrameKeys(df) == Range(df.names) \cup df.cols

\* the table to_sql creates when there is none: the frame's columns, and a
\* non-unique index ix_<table>_<level> on each index level
CreatedTable(table_name, df) ==
    [exists |-> TRUE, cols |-> FrameKeys(df), rows |-> EmptyBag,
     indexes |-> { [name |-> <<"ix", table_name, n>>, cols |-> <<n>>, unique |-> FALSE] :
                   n \in Range(df.names) }]

\* method=None: one INSERT of all rows in one transaction; a row that breaks a
\* unique index fails the statement and nothing is written
PlainInsert(tbl, df) ==
    LET rows == tbl.rows (+) BagOfSeq(df.rows)
    IN  IF ~(FrameKeys(df) \subseteq tbl.cols) THEN Raise(tbl, "ProgrammingError")
        ELSE IF ~AllIndexesAdmit(tbl, rows) THEN Raise(tbl, "IntegrityError")
        ELSE Ok([tbl EXCEPT !.rows = rows])

\* INSERT ... ON CONFLICT DO NOTHING: a row that meets an existing row is skipped
UpsertKeepsOld(tbl, keys, data_iter, indexes) ==
    LET RECURSIVE Go(_, _)
        Go(i, rows) ==
            IF i > Len(data_iter) THEN Ok([tbl EXCEPT !.rows = rows])
            ELSE LET r == data_iter[i]
                     added == rows (+) SetToBag({r})
                 IN  IF Matching(rows, r, Range(indexes)) # {} THEN Go(i + 1, rows)
                     ELSE IF ~AllIndexesAdmit(tbl, added) THEN Raise(tbl, "IntegrityError")
                     ELSE Go(i + 1, added)
    IN  IF ~(keys \subseteq tbl.cols) THEN Raise(tbl, "ProgrammingError")
        ELSE IF ~HasUniqueIndexOn(tbl, Range(indexes)) THEN Raise(tbl, "ProgrammingError")
        ELSE Go(1, tbl.rows)

\* INSERT ... ON CONFLICT (indexes) DO UPDATE SET k = excluded.k for k in keys.
\* Rows are taken in order; a row that meets an existing row on the conflict
\* target overwrites that row's columns `keys` and leaves its other columns;
\* a second row of the statement for the same target is an error; any other
\* unique index is checked as each row is written.
_insert_on_conflict_update(tbl, keys, data_iter, indexes) ==
    LET target == Range(indexes)
        RECURSIVE Go(_, _, _)
        Go(i, rows, touched) ==
            IF i > Len(data_iter) THEN Ok([tbl EXCEPT !.rows = rows])
            ELSE LET r == data_iter[i]
                     hit == Matching(rows, r, target)
                     e == CHOOSE x \in hit : TRUE
                     updated == [c \in (DOMAIN e \ keys) \cup DOMAIN r |->
                                    IF c \in DOMAIN r THEN r[c] ELSE e[c]]
                     rows2 == IF hit = {} THEN rows (+) SetToBag({r})
                              ELSE (rows (-) SetToBag({e})) (+) SetToBag({updated})
                 IN  IF hit # {} /\ Proj(r, target) \in touched
                         THEN Raise(tbl, "CardinalityViolation")
                     ELSE IF ~AllIndexesAdmit(tbl, rows2) THEN Raise(tbl, "IntegrityError")
                     ELSE Go(i + 1, rows2,
                             IF NotNullOn(r, target) THEN touched \cup {Proj(r, target)}
                             ELSE touched)
    IN  IF ~(keys \subseteq tbl.cols) THEN Raise(tbl, "ProgrammingError")
        ELSE IF ~HasUniqueIndexOn(tbl, target) THEN Raise(tbl, "ProgrammingError")
        ELSE Go(1, tbl.rows, {})

\* INSERT ... ON CONFLICT (keys) DO NOTHING, the conflict target being every
\* column written; no caller uses it
_insert_on_conflict_nothing(tbl, keys, data_iter) ==
    LET RECURSIVE Go(_, _)
        Go(i, rows) ==
            IF i > Len(data_iter) THEN Ok([tbl EXCEPT !.rows = rows])
            ELSE LET r == data_iter[i]
                     added == rows (+) SetToBag({r})
                 IN  IF Matching(rows, r, keys) # {} THEN Go(i + 1, rows)
                     ELSE IF ~AllIndexesAdmit(tbl, added) THEN Raise(tbl, "IntegrityError")
                     ELSE Go(i + 1, added)
    IN  IF ~(keys \subseteq tbl.cols) THEN Raise(tbl, "ProgrammingError")
        ELSE IF ~HasUniqueIndexOn(tbl, keys) THEN Raise(tbl, "ProgrammingError")
        ELSE Go(1, tbl.rows)

\* df.to_sql(table_name, engine, if_exists="append", index=True, method=method):
\* creating the table and writing the rows commit together
to_sql(tbl, table_name, df, method) ==
    IF ~tbl.exists THEN PlainInsert(CreatedTable(table_name, df), df)
    ELSE IF method = "_insert_on_conflict_update"
        THEN _insert_on_conflict_update(tbl, FrameKeys(df), df.rows, df.names)
    ELSE PlainInsert(tbl, df)

\* uix_<table>_<columns joined by "_">, kept as the sequence of its parts
IndexName(table_name, columns) == <<"uix", table_name>> \o columns

\* SqlManager.add_index: CREATE [UNIQUE] INDEX in a transaction of its own
add_index(tbl, table_name, columns, unique) ==
    LET index_name == IndexName(table_name, columns)
        cols == SelectSeq(columns, LAMBDA c : c \in tbl.cols)
        index == [name |-> index_name, cols |-> cols, unique |-> unique]
    IN  IF ~tbl.exists THEN Raise(tbl, "NoSuchTableError")
        ELSE IF cols = <<>> THEN Raise(tbl, "ProgrammingError")
        ELSE IF \E ix \in tbl.indexes : ix.name = index_name THEN Raise(tbl, "ProgrammingError")
        ELSE IF ~IndexAdmits(index, tbl.rows) THEN Raise(tbl, "IntegrityError")
        ELSE Ok([tbl EXCEPT !.indexes = @ \cup {index}])

\* the add_index calls of insert for a new table, in order, up to the first that raises
IndexRequests(df, other_unique_index_columns, other_non_unique_index_columns) ==
    <<[columns |-> df.names, unique |-> TRUE]>>
    \o [i \in 1..Len(other_unique_index_columns) |->
            [columns |-> <<other_unique_index_columns[i]>>, unique |-> TRUE]]
    \o [i \in 1..Len(other_non_unique_index_columns) |->
            [columns |-> <<other_non_unique_index_columns[i]>>, unique |-> FALSE]]

AddIndexes(tbl, table_name, requests) ==
    LET RECURSIVE Go(_, _)
        Go(i, t) ==
            IF i > Len(requests) THEN Ok(t)
            ELSE LET r == add_index(t, table_name, requests[i].columns, requests[i].unique)
                 IN  IF r.raised # "none" THEN r ELSE Go(i + 1, r.tbl)
    IN  Go(1, tbl)

\* the insertion method insert chooses
InsertMethod(upsert, new_table) ==
    IF upsert /\ ~new_table THEN "_insert_on_conflict_update" ELSE "None"

\* SqlManager.insert.  fault names the statement at which the engine fails
\* for a reason of its own (a lost connection): "none", "to_sql" or "add_index".
insert(tbl, table_name, df, upsert, other_unique_index_columns, other_non_unique_index_columns, fault) ==
    LET new_table == ~tbl.exists
        method == InsertMethod(upsert, new_table)
        written == to_sql(tbl, table_name, df, method)
    IN  IF fault = "to_sql" THEN Raise(tbl, "OperationalError")
        ELSE IF written.raised # "none" THEN written
        ELSE IF ~new_table THEN written
        ELSE IF fault = "add_index" THEN Raise(written.tbl, "OperationalError")
        ELSE AddIndexes(written.tbl, table_name,
                        IndexRequests(df, other_unique_index_columns,
                                      other_non_unique_index_columns))

-----------------------------------------------------------------------------
(* Calls of SqlManager.insert on one table. *)

\* the frames a caller passes: index "k", columns "v" and perhaps "w"
GenericRow(key, val, cs) ==
    [c \in {"k"} \cup cs |-> IF c = "k" THEN key ELSE IF c = "v" THEN val ELSE "c"]

GenericFrames ==
    { [names |-> <<"k">>, cols |-> cs,
       rows |-> [i \in 1..Len(ks) |-> GenericRow(ks[i], vs[i], cs)]] :
      <<ks, cs, vs>> \in
        { x \in GenericKeySeqs \X GenericColumnSets \X UNION {[1..n -> GenericValues] : n \in 1..2} :
            Len(x[3]) = Len(x[1]) } }

NoExtraIndexes == [unique |-> <<>>, non_unique |-> <<>>]

NoJob == [frame |-> <<>>, groups |-> <<>>]

\* MetadataSql and its subclasses.  A class attribute is [own, id, cls]: own
\* says that the class has the attribute in its own namespace (otherwise the
\* lookup goes to the base class), id and cls identify the object it names.
Classes == {"MetadataSql", "CBMetadataSql", "FutMetadataSql"}
BaseClass == "MetadataSql"
NoneObject == [id |-> 0, cls |-> "NoneType"]
Own(obj) == [own |-> TRUE, id |-> obj.id, cls |-> obj.cls]
Inherited == [own |-> FALSE, id |-> 0, cls |-> "NoneType"]

\* the class bodies: _instance = None and _manager = None in MetadataSql only
ClassBodies ==
    [c \in Classes |->
        IF c = BaseClass THEN [_instance |-> Own(NoneObject), _manager |-> Own(NoneObject)]
        ELSE [_instance |-> Inherited, _manager |-> Inherited]]

\* cls.<name>: the class's own attribute, else the base class's
ClassAttr(a, cls, name) ==
    LET found == IF a[cls][name].own THEN a[cls][name] ELSE a[BaseClass][name]
    IN  [id |-> found.id, cls |-> found.cls]

\* isinstance(obj, cls)
isinstance(obj, cls) == obj.cls = cls \/ (cls = BaseClass /\ obj.cls \in Classes)

\* MetadataSql.__new__(cls), the id-th object of the run being created if one
\* is: [attrs, nmanagers, instance]
__new__(a, n, cls, id) ==
    LET fresh == [id |-> id, cls |-> cls]
        manager == [id |-> n + 1, cls |-> "SqlManager"]
        made == [a EXCEPT ![cls] = [_instance |-> Own(fresh), _manager |-> Own(manager)]]
    IN  IF ~isinstance(ClassAttr(a, cls, "_instance"), cls)
        THEN [attrs |-> made, nmanagers |-> n + 1, instance |-> ClassAttr(made, cls, "_instance")]
        ELSE [attrs |-> a, nmanagers |-> n, instance |-> ClassAttr(a, cls, "_instance")]

\* keep the last two calls
Remember(h, call) == IF Len(h) < 2 THEN Append(h, call) ELSE <<h[2], call>>

Init ==
    /\ db = [n \in TableNames |-> NoTable]
    /\ hist = <<>>
    /\ ncalls = 0
    /\ pc = "idle"
    /\ job = NoJob
    /\ attrs = ClassBodies
    /\ nmanagers = 0

\* one call insert(GenericTable, df, upsert, ...), from entry to return or raise.
\* The two index arguments are read only when the table is new.
InsertCall ==
    /\ ncalls < MaxCalls
    /\ \E df \in GenericFrames, upsert \in BOOLEAN, extra \in ExtraIndexChoices :
        /\ db[GenericTable].exists => extra = NoExtraIndexes
        /\ BagCardinality(db[GenericTable].rows) + Len(df.rows) <= MaxRows
        /\ LET res == insert(db[GenericTable], GenericTable, df, upsert,
                             extra.unique, extra.non_unique, "none")
           IN  /\ db' = [db EXCEPT ![GenericTable] = res.tbl]
               /\ hist' = Remember(hist, [df |-> df, upsert |-> upsert, extra |-> extra,
                                          raised |-> res.raised, pre |-> db[GenericTable]])
    /\ ncalls' = ncalls + 1
    /\ UNCHANGED <<pc, job, attrs, nmanagers>>

Next == InsertCall

Spec == Init /\ [][Next]_vars

-----------------------------------------------------------------------------
(* Claims about SqlManager.insert, over the last two calls of a run. *)

\* the primary key of a row of frame df, and the keys a frame or a table holds
KeyOf(df, r) == Proj(r, Range(df.names))
KeySet(df) == {KeyOf(df, df.rows[i]) : i \in 1..Len(df.rows)}
EachKeyOnce(df) == Cardinality(KeySet(df)) = Len(df.rows)
TableKeys(tbl, df) == {KeyOf(df, r) : r \in BagToSet(tbl.rows)}
RowsAt(tbl, df, key) == {r \in BagToSet(tbl.rows) : KeyOf(df, r) = key}
FrameRowAt(df, key) == CHOOSE r \in Range(df.rows) : KeyOf(df, r) = key

TwoCalls == Len(hist) = 2
First == hist[1]
Second == hist[2]
AfterFirst == Second.pre
AfterSecond == db[GenericTable]

\* two upserts of the same keys into a table that held none of them
TwoUpsertsOfSameKeys ==
    /\ TwoCalls
    /\ First.upsert /\ Second.upsert
    /\ KeySet(First.df) = KeySet(Second.df)
    /\ TableKeys(First.pre, First.df) \cap KeySet(First.df) = {}

\* one row per key, and the row count of the first call kept
OneRowPerKey ==
    /\ \A key \in KeySet(Second.df) :
          \E r \in RowsAt(AfterSecond, Second.df, key) :
              /\ RowsAt(AfterSecond, Second.df, key) = {r}
              /\ CopiesIn(r, AfterSecond.rows) = 1
    /\ BagCardinality(AfterSecond.rows) = BagCardinality(AfterFirst.rows)

OnlyKeyIsUnique(tbl, df) ==
    \A ix \in tbl.indexes : ix.unique => Range(ix.cols) = Range(df.names)

\* C2: with upsert=False, data inserted a second time does not raise, its rows
\* that meet an existing key are not written, its other rows are written, and
\* the existing rows keep the first call's values.
C2_InsertOrIgnore ==
    ( /\ TwoCalls
      /\ ~First.upsert /\ ~Second.upsert
      /\ First.raised = "none"
      /\ EachKeyOnce(Second.df)
      /\ KeySet(First.df) \cap KeySet(Second.df) # {}
      /\ FrameKeys(Second.df) \subseteq AfterFirst.cols
      /\ OnlyKeyIsUnique(AfterFirst, Second.df) ) =>
        /\ Second.raised = "none"
        /\ AfterSecond.rows =
             AfterFirst.rows (+)
             SetToBag({r \in Range(Second.df.rows) :
                         KeyOf(Second.df, r) \notin TableKeys(AfterFirst, Second.df)})

\* the indexes insert was asked to give a new table
RequestedIndexes(call) ==
    LET reqs == IndexRequests(call.df, call.extra.unique, call.extra.non_unique)
    IN  { [name |-> IndexName(GenericTable, reqs[i].columns), cols |-> reqs[i].columns,
           unique |-> reqs[i].unique] : i \in 1..Len(reqs) }

\* C3: once an insert into a table that did not exist has ended, by return or
\* by error, the table does not exist or carries the unique index on the
\* primary-key columns and the extra indexes asked for; so every table that
\* exists carries that unique index and no two of its rows share a key.
C3_NewTableCarriesUniqueIndex ==
    /\ (hist # <<>> /\ ~hist[Len(hist)].pre.exists /\ db[GenericTable].exists) =>
          RequestedIndexes(hist[Len(hist)]) \subseteq db[GenericTable].indexes
    /\ db[GenericTable].exists =>
          /\ HasUniqueIndexOn(db[GenericTable], {"k"})
          /\ \A r \in BagToSet(db[GenericTable].rows) :
                /\ CopiesIn(r, db[GenericTable].rows) = 1
                /\ Matching(db[GenericTable].rows, r, {"k"}) = {r}

-----------------------------------------------------------------------------
(* The metadata store: MetadataSql on top of SqlManager. *)

COMMON_METADATA_COLUMNS ==
    {"name", "trading_code", "inst_type", "currency", "timezone", "tick_size",
     "lot_size", "min_lots", "market_tplus", "listed_date", "delisted_date"}

TYPE_METADATA_COLUMNS ==
    [STK |-> {"country", "state", "board_type", "issue_price"},
     ETF |-> {"issuer", "current_mgr", "custodian", "issuer_country", "fund_type", "benchmark"},
     LOF |-> {"issuer", "current_mgr", "custodian", "issuer_country", "fund_type", "benchmark"}]

IdColumns == <<"ticker", "exchange">>

\* f"instruments_{inst_type.lower()}"
TypeTable(inst_type) ==
    CASE inst_type = "STK" -> "instruments_stk"
      [] inst_type = "ETF" -> "instruments_etf"
      [] inst_type = "LOF" -> "instruments_lof"

\* create_table(name, columns, primary_key): the table with its declared columns
\* and a primary key, that is a unique index, on the identifier pair
create_table(table_name, columns, primary_key) ==
    [exists |-> TRUE, cols |-> columns, rows |-> EmptyBag,
     indexes |-> {[name |-> <<table_name, "pkey">>, cols |-> primary_key, unique |-> TRUE]}]

\* MetadataSql.initialize: a table that exists is left as it is
initialize(d, for_inst_types) ==
    LET types == IF for_inst_types = "all" THEN DOMAIN TYPE_METADATA_COLUMNS
                 ELSE {for_inst_types}
    IN  [n \in TableNames |->
            IF d[n].exists THEN d[n]
            ELSE IF n = "instruments"
                THEN create_table(n, Range(IdColumns) \cup COMMON_METADATA_COLUMNS, IdColumns)
            ELSE IF \E t \in types : n = TypeTable(t)
                THEN create_table(n, Range(IdColumns) \cup
                        TYPE_METADATA_COLUMNS[CHOOSE t \in types : n = TypeTable(t)], IdColumns)
            ELSE d[n]]

\* The argument of update_instrument_metadata: [form, ids, cols, rows].  form is
\* "dict", "list" or "frame"; ids says where a frame holds ticker and exchange:
\* in its "columns", in its "index", or nowhere ("absent"); cols are the other
\* columns.  A dict or a list of dicts holds them as keys.
DataColumns(data) ==
    IF data.ids = "columns" THEN data.cols \cup Range(IdColumns) ELSE data.cols

\* lines 78-90: the checks and the normalisation, up to the frame indexed by
\* (ticker, exchange); data.columns is read before a dict or list is converted
Normalize(data) ==
    IF data.form # "frame" THEN [raised |-> "AttributeError", frame |-> <<>>]
    ELSE IF "inst_type" \notin DataColumns(data)
            /\ DataColumns(data) \ COMMON_METADATA_COLUMNS # {}
        THEN [raised |-> "ValueError", frame |-> <<>>]
    ELSE IF data.ids = "absent" THEN [raised |-> "AssertionError", frame |-> <<>>]
    ELSE [raised |-> "none",
          frame |-> [names |-> IdColumns, cols |-> data.cols, rows |-> data.rows]]

\* data[columns]: the frame cut down to some of its columns
Columns(frame, columns) ==
    [names |-> frame.names, cols |-> frame.cols \cap columns,
     rows |-> [i \in 1..Len(frame.rows) |->
                  Proj(frame.rows[i], Range(frame.names) \cup (frame.cols \cap columns))]]

\* line 91
data_common(frame) == Columns(frame, COMMON_METADATA_COLUMNS)

\* the order in which groupby("inst_type") yields the instrument types: sorted
InstTypeOrder == <<"ETF", "FUT", "LOF", "STK">>

\* line 95: the group keys of the frame, in order; a row without inst_type is in no group
GroupKeys(frame) ==
    SelectSeq(InstTypeOrder,
              LAMBDA t : \E i \in 1..Len(frame.rows) :
                            "inst_type" \in DOMAIN frame.rows[i] /\ frame.rows[i].inst_type = t)

\* the rows of one group, in the frame's order
Group(frame, inst_type) ==
    [frame EXCEPT !.rows =
        SelectSeq(frame.rows, LAMBDA r : "inst_type" \in DOMAIN r /\ r.inst_type = inst_type)]

\* a loop over the groups entered whatever the common insert did
GoesOnWhateverCommonDid(frame, common_raised) == "inst_type" \in frame.cols

\* the step at which update_instrument_metadata goes on to the type tables:
\* the common insert returned and the frame has an inst_type column (lines 93-94)
GoesOnToTypeTables(frame, common_raised) ==
    common_raised = "none" /\ "inst_type" \in frame.cols

\* lines 96-100: one turn of the loop over the groups
TypeWrite(d, frame, inst_type, fault) ==
    LET data_type_df == Group(frame, inst_type)
        columns == frame.cols \cap TYPE_METADATA_COLUMNS[inst_type]
        res == insert(d[TypeTable(inst_type)], TypeTable(inst_type),
                      Columns(data_type_df, columns), TRUE, <<>>, <<>>, fault)
    IN  IF data_type_df.rows # <<>> /\ inst_type \in DOMAIN TYPE_METADATA_COLUMNS
            /\ columns # {}
        THEN [db |-> [d EXCEPT ![TypeTable(inst_type)] = res.tbl], raised |-> res.raised]
        ELSE [db |-> d, raised |-> "none"]

\* line 93
CommonWrite(d, frame, fault) ==
    LET res == insert(d["instruments"], "instruments", data_common(frame), TRUE, <<>>, <<>>, fault)
    IN  [db |-> [d EXCEPT !["instruments"] = res.tbl], raised |-> res.raised]

\* update_instrument_metadata from entry to return or raise, the engine not failing
update_instrument_metadata(d, data) ==
    LET n == Normalize(data)
        common == CommonWrite(d, n.frame, "none")
        groups == GroupKeys(n.frame)
        RECURSIVE Go(_, _)
        Go(i, cur) ==
            IF i > Len(groups) THEN [db |-> cur, raised |-> "none"]
            ELSE LET w == TypeWrite(cur, n.frame, groups[i], "none")
                 IN  IF w.raised # "none" THEN w ELSE Go(i + 1, w.db)
    IN  IF n.raised # "none" THEN [db |-> d, raised |-> n.raised]
        ELSE IF ~GoesOnToTypeTables(n.frame, common.raised) THEN common
        ELSE Go(1, common.db)

-----------------------------------------------------------------------------
(* Reading.  A filter value or a ticker/exchange argument is [kind, s, l]:  *)
(* kind "str" with s the value, kind "list" with l the sequence of values,  *)
(* or kind "none".  A ticker is the sequence of its characters, so that     *)
(* len() of a ticker string is its number of characters.  query_fields is   *)
(* [star, fields]: "*" or a list of field names.  A table read from the     *)
(* database is a bag of rows.                                               *)

NoTicker == [kind |-> "none", s |-> <<>>, l |-> <<>>]
NoExchange == [kind |-> "none", s |-> "", l |-> <<>>]
TickerStr(t) == [kind |-> "str", s |-> t, l |-> <<>>]
TickerList(ts) == [kind |-> "list", s |-> <<>>, l |-> ts]
Str(x) == [kind |-> "str", s |-> x, l |-> <<>>]
List(xs) == [kind |-> "list", s |-> "", l |-> xs]

\* len(x) of a string or a list
Length(x) == IF x.kind = "list" THEN Len(x.l) ELSE Len(x.s)

\* isinstance(x, Container) and not isinstance(x, (str, bytes))
IsMultiValued(x) == x.kind = "list"

\* table.columns[field].in_(values) or table.columns[field] == value; NULL matches nothing
Satisfies(r, field, filter_values) ==
    /\ field \in DOMAIN r
    /\ IF IsMultiValued(filter_values) THEN r[field] \in Range(filter_values.l)
       ELSE r[field] = filter_values.s

\* the bag of the images of the rows of bag b under Op
MapBag(b, Op(_)) ==
    LET RECURSIVE Go(_)
        Go(todo) ==
            IF todo = {} THEN EmptyBag
            ELSE LET r == CHOOSE x \in todo : TRUE
                 IN  (Op(r) :> CopiesIn(r, b)) (+) Go(todo \ {r})
    IN  Go(BagToSet(b))

\* the rows of bag b that satisfy P
FilterBag(b, P(_)) ==
    LET keep == {r \in BagToSet(b) : P(r)}
    IN  [r \in keep |-> CopiesIn(r, b)]

\* line 253: pd.read_sql_query() is called without its required arguments
read_sql_query == "TypeError"

\* SqlManager.read_data: [raised, executed, rows]; executed says that the
\* SELECT reached the database, rows is what it selected
read_data(tbl, query_fields, filter_fields) ==
    LET fields == IF query_fields.star THEN tbl.cols ELSE Range(query_fields.fields)
        selected == FilterBag(tbl.rows,
                        LAMBDA r : \A f \in DOMAIN filter_fields : Satisfies(r, f, filter_fields[f]))
        res == MapBag(selected, LAMBDA r : Proj(r, fields))
    IN  IF ~tbl.exists THEN [raised |-> "NoSuchTableError", executed |-> FALSE, rows |-> EmptyBag]
        ELSE IF ~(fields \subseteq tbl.cols) \/ ~(DOMAIN filter_fields \subseteq tbl.cols)
            THEN [raised |-> "KeyError", executed |-> FALSE, rows |-> EmptyBag]
        ELSE IF read_sql_query # "none"
            THEN [raised |-> read_sql_query, executed |-> TRUE, rows |-> res]
        ELSE [raised |-> "none", executed |-> TRUE, rows |-> res]

\* len(x) of a query_fields argument: "*" is a string of one character
PyLen(query_fields) == IF query_fields.star THEN 1 ELSE Len(query_fields.fields)

Star == [star |-> TRUE, fields |-> <<>>]
Fields(fs) == [star |-> FALSE, fields |-> fs]

\* common_df.merge(type_df, on=["ticker", "exchange"], how="inner")
Merge(left, right) ==
    LET on == Range(IdColumns)
        pairs == {p \in BagToSet(left) \X BagToSet(right) :
                    NotNullOn(p[1], on) /\ NotNullOn(p[2], on) /\ Proj(p[1], on) = Proj(p[2], on)}
        RECURSIVE Go(_)
        Go(todo) ==
            IF todo = {} THEN EmptyBag
            ELSE LET p == CHOOSE x \in todo : TRUE
                 IN  ((p[1] @@ p[2]) :> (CopiesIn(p[1], left) * CopiesIn(p[2], right)))
                     (+) Go(todo \ {p})
    IN  Go(pairs)

\* the values of one column of a table, as a list
ToList(rows, column) ==
    LET RECURSIVE Go(_)
        Go(todo) ==
            IF todo = {} THEN <<>>
            ELSE LET r == CHOOSE x \in todo : TRUE
                 IN  [i \in 1..CopiesIn(r, rows) |-> r[column]] \o Go(todo \ {r})
    IN  Go(BagToSet(rows))

\* lines 128-134: the filters with ticker and exchange added, or the failed assertion
ReadFilters(ticker, exchange, filter_fields) ==
    LET with_ticker == IF ticker.kind # "none" THEN ("ticker" :> ticker) @@ filter_fields
                       ELSE filter_fields
    IN  IF exchange.kind = "none" THEN [raised |-> "none", filter_fields |-> with_ticker]
        ELSE IF IsMultiValued(exchange) /\ ticker.kind # "none"
                /\ Length(exchange) # Length(ticker)
            THEN [raised |-> "AssertionError", filter_fields |-> with_ticker]
        ELSE [raised |-> "none", filter_fields |-> ("exchange" :> exchange) @@ with_ticker]

\* lines 135-139: the identifier columns and the common columns asked for
query_fields_common(query_fields) ==
    IF query_fields.star THEN Star
    ELSE Fields(IdColumns \o SelectSeq(query_fields.fields,
                                      LAMBDA f : f \in COMMON_METADATA_COLUMNS))

\* lines 140-142: the keys of the filters on identifier and common columns
filter_fields_common(filter_fields) ==
    {k \in DOMAIN filter_fields : k \in Range(IdColumns) \cup COMMON_METADATA_COLUMNS}

\* lines 143-147: the lengths of the two lists and of the two dicts are compared
all_fields_common(query_fields, filter_fields) ==
    /\ PyLen(query_fields_common(query_fields)) = PyLen(query_fields)
    /\ Cardinality(filter_fields_common(filter_fields)) = Cardinality(DOMAIN filter_fields)
    /\ ~query_fields.star

\* MetadataSql.read_metadata: [raised, res, queries]; res maps instrument types
\* to tables, queries lists the SELECTs that reached the database, each
\* [table, rows]
read_metadata(d, ticker, exchange, query_fields, filter_fields_arg) ==
    LET checked == ReadFilters(ticker, exchange, filter_fields_arg)
        filter_fields == checked.filter_fields
        query_fields_sent ==
            IF query_fields.star \/ "inst_type" \in Range(query_fields.fields)
            THEN query_fields_common(query_fields)
            ELSE Fields(Append(query_fields_common(query_fields).fields, "inst_type"))
        common == read_data(d["instruments"], query_fields_sent, filter_fields)
        common_df == common.rows
        first_query == IF common.executed
                       THEN <<[table |-> "instruments", rows |-> common.rows]>> ELSE <<>>
        groups == SelectSeq(InstTypeOrder,
                            LAMBDA t : \E r \in BagToSet(common_df) :
                                          "inst_type" \in DOMAIN r /\ r.inst_type = t)
        ByType(t) == FilterBag(common_df, LAMBDA r : "inst_type" \in DOMAIN r /\ r.inst_type = t)
        RECURSIVE Go(_, _, _)
        Go(i, res, queries) ==
            IF i > Len(groups) THEN [raised |-> "none", res |-> res, queries |-> queries]
            ELSE LET inst_type == groups[i]
                     common_df_by_type == ByType(inst_type)
                     query_fields_type ==
                         IF query_fields.star THEN Star
                         ELSE Fields(IdColumns \o
                                SelectSeq(query_fields.fields,
                                          LAMBDA f : f \in TYPE_METADATA_COLUMNS[inst_type]))
                     filter_fields_type ==
                         ("ticker" :> TickerList(ToList(common_df_by_type, "ticker")))
                         @@ ("exchange" :> List(ToList(common_df_by_type, "exchange")))
                         @@ [k \in DOMAIN filter_fields \cap TYPE_METADATA_COLUMNS[inst_type] |->
                                filter_fields[k]]
                     type_read == read_data(d[TypeTable(inst_type)], query_fields_type,
                                            filter_fields_type)
                     queries2 == IF type_read.executed
                                 THEN Append(queries, [table |-> TypeTable(inst_type),
                                                       rows |-> type_read.rows])
                                 ELSE queries
                 IN  IF all_fields_common(query_fields, filter_fields)
                         THEN Go(i + 1, (inst_type :> common_df_by_type) @@ res, queries)
                     ELSE IF inst_type \notin DOMAIN TYPE_METADATA_COLUMNS
                         THEN [raised |-> IF (~query_fields.star /\ query_fields.fields # <<>>)
                                                \/ DOMAIN filter_fields # {}
                                             THEN "KeyError" ELSE "NoSuchTableError",
                               res |-> <<>>, queries |-> queries]
                     ELSE IF type_read.raised # "none"
                         THEN [raised |-> type_read.raised, res |-> <<>>, queries |-> queries2]
                     ELSE Go(i + 1,
                             (inst_type :> Merge(common_df_by_type, type_read.rows)) @@ res,
                             queries2)
    IN  IF checked.raised # "none"
            THEN [raised |-> checked.raised, res |-> <<>>, queries |-> <<>>]
        ELSE IF common.raised # "none"
            THEN [raised |-> common.raised, res |-> <<>>, queries |-> first_query]
        ELSE IF common_df = EmptyBag
            THEN [raised |-> "none", res |-> <<>>, queries |-> first_query]
        ELSE Go(1, <<>>, first_query)

-----------------------------------------------------------------------------
(* Calls of the metadata store. *)

MetaTables == TableNames \ {GenericTable}

\* the instruments a caller writes: one ticker listed on two exchanges
Id1 == [ticker |-> <<"A">>, exchange |-> "X"]
Id2 == [ticker |-> <<"A">>, exchange |-> "Y"]
MetaIdSeqs == {<<Id1>>, <<Id2>>, <<Id1, Id2>>, <<Id1, Id1>>}
InstTypeValues == {"STK", "ETF", "FUT"}
MetaColumnSets ==
    { {"name"}, {"country"}, {"inst_type", "name", "country"}, {"inst_type", "country", "issuer"} }
DataShapes ==
    { [form |-> "frame", ids |-> "index"], [form |-> "frame", ids |-> "columns"],
      [form |-> "frame", ids |-> "absent"], [form |-> "dict", ids |-> "columns"],
      [form |-> "list", ids |-> "columns"] }

MetaRow(id, inst_type, cs) ==
    [c \in Range(IdColumns) \cup cs |->
        CASE c = "ticker" -> id.ticker
          [] c = "exchange" -> id.exchange
          [] c = "inst_type" -> inst_type
          [] c = "name" -> "n"
          [] c = "country" -> "c"
          [] OTHER -> "i"]

\* the data a caller passes to update_instrument_metadata: one row in any
\* shape, or two rows in a frame indexed by (ticker, exchange)
UpdateInputs ==
    { [form |-> x[4].form, ids |-> x[4].ids, cols |-> x[2],
       rows |-> [i \in 1..Len(x[1]) |->
                    IF x[4].ids = "absent" THEN Proj(MetaRow(x[1][i], x[3][i], x[2]), x[2])
                    ELSE MetaRow(x[1][i], x[3][i], x[2])]] :
      x \in { y \in MetaIdSeqs \X MetaColumnSets
                    \X (UNION {[1..n -> InstTypeValues] : n \in 1..2}) \X DataShapes :
                /\ Len(y[3]) = Len(y[1])
                /\ "inst_type" \notin y[2] => \A i \in 1..Len(y[3]) : y[3][i] = "STK"
                /\ y[4] # [form |-> "frame", ids |-> "index"] => Len(y[1]) = 1 } }

TickerArgs ==
    { NoTicker, TickerStr(<<"A">>), TickerStr(<<"A", "B">>),
      TickerList(<< <<"A">> >>), TickerList(<< <<"A">>, <<"A", "B">> >>) }
ExchangeArgs == {NoExchange, Str("X"), List(<<"Y">>), List(<<"X", "Y">>)}
QueryFieldChoices == {Star, Fields(<<"name">>), Fields(<<"country">>)}
FilterFieldChoices == {<<>>, "country" :> Str("c")}

NoFaults == {"none"}
EngineFaults == {"none", "to_sql", "add_index"}

\* MetadataSql.initialize("all"), when it creates a table
Initialize ==
    /\ pc = "idle"
    /\ \E for_inst_types \in {"all"} :
        /\ initialize(db, for_inst_types) # db
        /\ db' = initialize(db, for_inst_types)
    /\ UNCHANGED <<hist, ncalls, pc, job, attrs, nmanagers>>

UpdateDone(data, pre, raised) ==
    /\ pc' = "idle"
    /\ job' = NoJob
    /\ hist' = Remember(hist, [op |-> "update", data |-> data, raised |-> raised, pre |-> pre])

\* update_instrument_metadata from its entry to the return of the insert into
\* the common table (lines 78-94)
UpdateBegin(faults) ==
    /\ pc = "idle"
    /\ ncalls < MaxMetaCalls
    /\ ncalls' = ncalls + 1
    /\ UNCHANGED <<attrs, nmanagers>>
    /\ \E data \in UpdateInputs, fault \in faults :
        /\ \A n \in MetaTables : BagCardinality(db[n].rows) + Len(data.rows) <= MaxRows
        /\ LET n == Normalize(data)
               common == CommonWrite(db, n.frame, fault)
           IN  IF n.raised # "none"
                   THEN /\ fault = "none"
                        /\ db' = db
                        /\ UpdateDone(data, db, n.raised)
               ELSE /\ db' = common.db
                    /\ IF GoesOnToTypeTables(n.frame, common.raised)
                          /\ GroupKeys(n.frame) # <<>>
                       THEN /\ pc' = "type_writes"
                            /\ job' = [frame |-> n.frame, groups |-> GroupKeys(n.frame),
                                       data |-> data, pre |-> db]
                            /\ hist' = hist
                       ELSE UpdateDone(data, db, common.raised)

\* one turn of the loop over the groups (lines 96-100), and the return or the
\* raise that ends the call
UpdateTypeWrite(faults) ==
    /\ pc = "type_writes"
    /\ \E fault \in faults :
        LET w == TypeWrite(db, job.frame, Head(job.groups), fault)
        IN  /\ db' = w.db
            /\ IF w.raised = "none" /\ Tail(job.groups) # <<>>
               THEN /\ job' = [job EXCEPT !.groups = Tail(job.groups)]
                    /\ UNCHANGED <<pc, hist>>
               ELSE UpdateDone(job.data, job.pre, w.raised)
    /\ UNCHANGED <<ncalls, attrs, nmanagers>>

\* one call of read_metadata
ReadCall ==
    /\ pc = "idle"
    /\ ncalls < MaxMetaCalls
    /\ ncalls' = ncalls + 1
    /\ \E ticker \in TickerArgs, exchange \in ExchangeArgs,
          query_fields \in QueryFieldChoices, filter_fields \in FilterFieldChoices :
        LET got == read_metadata(db, ticker, exchange, query_fields, filter_fields)
        IN  hist' = Remember(hist, [op |-> "read", ticker |-> ticker, exchange |-> exchange,
                                    query_fields |-> query_fields, filter_fields |-> filter_fields,
                                    raised |-> got.raised, res |-> got.res,
                                    queries |-> got.queries, pre |-> db])
    /\ UNCHANGED <<db, pc, job, attrs, nmanagers>>

NextMeta == Initialize \/ UpdateBegin(NoFaults) \/ UpdateTypeWrite(NoFaults) \/ ReadCall

SpecMeta == Init /\ [][NextMeta]_vars

NextMetaF == Initialize \/ UpdateBegin(EngineFaults) \/ UpdateTypeWrite(EngineFaults) \/ ReadCall

SpecMetaF == Init /\ [][NextMetaF]_vars

-----------------------------------------------------------------------------
(* Claims about the metadata store.  hist holds the calls that returned or  *)
(* raised, db the tables as they are now.                                   *)

IdOf(r) == Proj(r, Range(IdColumns))
Ids(tbl) == {IdOf(r) : r \in BagToSet(tbl.rows)}
RecognisedTypes == DOMAIN TYPE_METADATA_COLUMNS
CommonRowsOf(d, id) == FilterBag(d["instruments"].rows, LAMBDA r : IdOf(r) = id)
Last == hist[Len(hist)]
EmptyStore == initialize([n \in TableNames |-> NoTable], "all")
Initialised(d) == initialize(d, "all") = d

\* C4: between calls of update_instrument_metadata, every identifier stored in
\* the type table of instrument type T has exactly one row in "instruments",
\* and the inst_type of that row is T
C4_TypeRowsMatchCommon ==
    pc = "idle" =>
        \A T \in RecognisedTypes : \A id \in Ids(db[TypeTable(T)]) :
            /\ BagCardinality(CommonRowsOf(db, id)) = 1
            /\ \A r \in BagToSet(CommonRowsOf(db, id)) :
                  "inst_type" \in DOMAIN r /\ r.inst_type = T

\* C5: in every state, between the writes of one call and after a failed
\* write included, every identifier in a type table is in "instruments"
C5_TypeIdsAreInCommon ==
    \A T \in RecognisedTypes : Ids(db[TypeTable(T)]) \subseteq Ids(db["instruments"])

\* a call is between its common write and a type write, an earlier call ended
\* by an engine failure, and a type table holds rows
C5_Witness ==
    /\ pc = "type_writes"
    /\ Len(hist) = 1
    /\ hist[1].op = "update"
    /\ hist[1].raised = "OperationalError"
    /\ \E T \in RecognisedTypes : Ids(db[TypeTable(T)]) # {}

\* one record of a recognised type written to an initialised, empty store, then
\* read_metadata(ticker=<the record's ticker>)
UpdateThenRead ==
    /\ TwoCalls
    /\ First.op = "update"
    /\ First.data.form = "frame"
    /\ Len(First.data.rows) = 1
    /\ "inst_type" \in First.data.cols
    /\ First.data.rows[1].inst_type \in RecognisedTypes
    /\ First.data.cols \subseteq COMMON_METADATA_COLUMNS
                                    \cup TYPE_METADATA_COLUMNS[First.data.rows[1].inst_type]
    /\ First.pre = EmptyStore
    /\ First.raised = "none"
    /\ Second.op = "read"
    /\ Second.ticker = TickerStr(First.data.rows[1].ticker)
    /\ Second.exchange = NoExchange
    /\ Second.query_fields = Star
    /\ Second.filter_fields = <<>>

\* C6: the read after the update returns a mapping with key T whose table has
\* exactly one row for the identifier, holding the values that were written
C6_RoundTrip ==
    UpdateThenRead =>
        LET given == First.data.rows[1]
            T == given.inst_type
            stored == DOMAIN given \cap
                        (Range(IdColumns) \cup COMMON_METADATA_COLUMNS \cup TYPE_METADATA_COLUMNS[T])
        IN  /\ Second.raised = "none"
            /\ T \in DOMAIN Second.res
            /\ LET rows == FilterBag(Second.res[T], LAMBDA r : IdOf(r) = IdOf(given))
               IN  /\ BagCardinality(rows) = 1
                   /\ \A r \in BagToSet(rows) : \A c \in stored : c \in DOMAIN r /\ r[c] = given[c]

\* C7: a record given as a dict or as a list of dicts is written as the frame
\* holding the same row is: the call returns and leaves the same tables
C7_SameInAllForms ==
    (/\ pc = "idle"
     /\ hist # <<>>
     /\ Last.op = "update"
     /\ Last.data.form \in {"dict", "list"}
     /\ Initialised(Last.pre)) =>
        LET tabular == update_instrument_metadata(Last.pre, [Last.data EXCEPT !.form = "frame"])
        IN  tabular.raised = "none" => (Last.raised = "none" /\ db = tabular.db)

\* C8: data with a column outside the common columns and without inst_type
\* raises the schema error (ValueError) and leaves every table as it was
C8_SchemaViolationBeforeInsert ==
    (/\ pc = "idle"
     /\ hist # <<>>
     /\ Last.op = "update"
     /\ Initialised(Last.pre)
     /\ "inst_type" \notin Last.data.cols
     /\ Last.data.cols \ COMMON_METADATA_COLUMNS # {}) =>
        (Last.raised = "ValueError" /\ db = Last.pre)

\* the number of tickers of a ticker argument: a string is one ticker
NumTickers(ticker) == IF ticker.kind = "list" THEN Len(ticker.l) ELSE 1

\* C9: read_metadata with a list of exchanges and a ticker argument whose
\* number of tickers differs from the number of exchanges raises the
\* assertion, and no query has reached the database
C9_FilterMismatchRaises ==
    (/\ hist # <<>>
     /\ Last.op = "read"
     /\ IsMultiValued(Last.exchange)
     /\ Last.ticker.kind # "none"
     /\ NumTickers(Last.ticker) # Len(Last.exchange.l)) =>
        (Last.raised = "AssertionError" /\ Last.queries = <<>>)

\* the identifier of row r is (ticker[i], exchange[i]) at some position i
PairedAt(r, ticker, exchange) ==
    \E i \in 1..Len(ticker.l) : r.ticker = ticker.l[i] /\ r.exchange = exchange.l[i]

\* C10: read_metadata with lists of tickers and exchanges of equal length
\* selects from "instruments" exactly the stored instruments whose identifier
\* is (ticker[i], exchange[i]) for some i and that pass the other filters
C10_PairedFiltering ==
    (/\ hist # <<>>
     /\ Last.op = "read"
     /\ Last.ticker.kind = "list"
     /\ Last.exchange.kind = "list"
     /\ Len(Last.ticker.l) = Len(Last.exchange.l)
     /\ Last.queries # <<>>) =>
        {IdOf(r) : r \in BagToSet(Last.queries[1].rows)}
            = {IdOf(r) : r \in {x \in BagToSet(db["instruments"].rows) :
                                  /\ PairedAt(x, Last.ticker, Last.exchange)
                                  /\ \A f \in DOMAIN Last.filter_fields :
                                        Satisfies(x, f, Last.filter_fields[f])}}

\* a read of a store whose tables exist, with arguments that pass lines 128-134
ReadOfStore ==
    /\ hist # <<>>
    /\ Last.op = "read"
    /\ Initialised(Last.pre)
    /\ ReadFilters(Last.ticker, Last.exchange, Last.filter_fields).raised = "none"

\* the rows of "instruments" that pass the ticker and exchange arguments of the read
MatchingIds(h) ==
    {r \in BagToSet(h.pre["instruments"].rows) :
        /\ h.ticker.kind # "none" => Satisfies(r, "ticker", h.ticker)
        /\ h.exchange.kind # "none" => Satisfies(r, "exchange", h.exchange)}

\* C11: a mapping that read_metadata returns maps no instrument type to an
\* empty table, and when no stored row matches the call returns the empty mapping
C11_NoEmptyTypeInResult ==
    ReadOfStore =>
        /\ Last.raised = "none" => \A T \in DOMAIN Last.res : Last.res[T] # EmptyBag
        /\ MatchingIds(Last) = {} => (Last.raised = "none" /\ Last.res = <<>>)

\* the rows of a frame have pairwise different identifiers
DistinctIds(rows) == \A i, j \in 1..Len(rows) : IdOf(rows[i]) = IdOf(rows[j]) => i = j

\* C14: a frame of identifiers and common columns without inst_type is not
\* rejected: every row is upserted into "instruments", no type table is written
C14_CommonOnlyUpdateAccepted ==
    (/\ pc = "idle"
     /\ hist # <<>>
     /\ Last.op = "update"
     /\ Initialised(Last.pre)
     /\ Last.data.form = "frame"
     /\ Last.data.ids \in {"columns", "index"}
     /\ Last.data.cols \subseteq COMMON_METADATA_COLUMNS \ {"inst_type"}
     /\ DistinctIds(Last.data.rows)) =>
        /\ Last.raised = "none"
        /\ \A T \in RecognisedTypes : db[TypeTable(T)] = Last.pre[TypeTable(T)]
        /\ \A i \in 1..Len(Last.data.rows) :
              \E r \in BagToSet(db["instruments"].rows) :
                  \A c \in DOMAIN Last.data.rows[i] :
                      c \in DOMAIN r /\ r[c] = Last.data.rows[i][c]

\* every query field and every filter field is an identifier or a common column
AllCommon(query_fields, filter_fields) ==
    /\ ~query_fields.star
    /\ Range(query_fields.fields) \subseteq Range(IdColumns) \cup COMMON_METADATA_COLUMNS
    /\ DOMAIN filter_fields \subseteq Range(IdColumns) \cup COMMON_METADATA_COLUMNS

\* C15: read_metadata decides for the fast path exactly when every query and
\* filter field is an identifier or a common column; otherwise the type table
\* of each recognised type among the rows selected from "instruments" is queried
C15_FastPathIffAllCommon ==
    ReadOfStore =>
        LET filters == ReadFilters(Last.ticker, Last.exchange, Last.filter_fields).filter_fields
            common == AllCommon(Last.query_fields, filters)
        IN  /\ all_fields_common(Last.query_fields, filters) <=> common
            /\ (/\ ~common
                /\ Last.queries # <<>>
                /\ \E r \in BagToSet(Last.queries[1].rows) :
                      "inst_type" \in DOMAIN r /\ r.inst_type \in RecognisedTypes)
               => Len(Last.queries) >= 2

-----------------------------------------------------------------------------
(* Constructions of the metadata store classes. *)

\* one construction cls(): __new__ and what it returns
Construct ==
    /\ pc = "idle"
    /\ ncalls < MaxConstructions
    /\ ncalls' = ncalls + 1
    /\ \E cls \in Classes :
        LET made == __new__(attrs, nmanagers, cls, ncalls + 1)
        IN  /\ attrs' = made.attrs
            /\ nmanagers' = made.nmanagers
            /\ hist' = Remember(hist, [op |-> "new", cls |-> cls, instance |-> made.instance,
                                       manager |-> ClassAttr(made.attrs, made.instance.cls,
                                                             "_manager")])
    /\ UNCHANGED <<db, pc, job>>

NextSingleton == Construct

SpecSingleton == Init /\ [][NextSingleton]_vars

\* C12: over any constructions of MetadataSql and its subclasses, two
\* constructions return the same instance and one SqlManager at most is created
C12_ProcessWideSingleton ==
    /\ nmanagers <= 1
    /\ (TwoCalls /\ First.op = "new" /\ Second.op = "new") =>
            (First.instance = Second.instance /\ First.manager = Second.manager)

-----------------------------------------------------------------------------
(* SqlManager.rename_column.  Here a column name is the sequence of its     *)
(* characters, so that LIKE, re.sub and str.replace work on text.  The      *)
(* part "uix_<table>_" or "ix_<table>_" of an index name holds no character *)
(* of the column names used, so an index name stays the sequence of its     *)
(* parts and str.replace acts on the column parts.                          *)

StartsWith(s, p) == Len(s) >= Len(p) /\ SubSeq(s, 1, Len(p)) = p

\* p occurs in s
Contains(s, p) == \E i \in 1..(Len(s) - Len(p) + 1) : SubSeq(s, i, i + Len(p) - 1) = p

\* s.replace(old, new): every occurrence, from the left, not overlapping
ReplaceAll(s, old, new) ==
    LET RECURSIVE Go(_)
        Go(rest) ==
            IF rest = <<>> THEN <<>>
            ELSE IF StartsWith(rest, old)
                THEN new \o Go(SubSeq(rest, Len(old) + 1, Len(rest)))
            ELSE <<Head(rest)>> \o Go(Tail(rest))
    IN  Go(s)

\* the first occurrence of old in s replaced by new: what the lazy group of
\* the pattern of line 174 leaves to the left of old holds no occurrence
ReplaceFirst(s, old, new) ==
    LET RECURSIVE Go(_)
        Go(rest) ==
            IF rest = <<>> THEN <<>>
            ELSE IF StartsWith(rest, old)
                THEN new \o SubSeq(rest, Len(old) + 1, Len(rest))
            ELSE <<Head(rest)>> \o Go(Tail(rest))
    IN  Go(s)

\* the column list of an index definition, the text between "(" and ")"
ColumnText(cols) ==
    LET RECURSIVE Go(_)
        Go(i) == IF i > Len(cols) THEN <<>>
                 ELSE (IF i = 1 THEN <<>> ELSE <<",", " ">>) \o cols[i] \o Go(i + 1)
    IN  Go(1)

\* the columns a column list names
SplitColumns(txt) ==
    LET RECURSIVE Go(_, _)
        Go(rest, cur) ==
            IF rest = <<>> THEN <<cur>>
            ELSE IF StartsWith(rest, <<",", " ">>)
                THEN <<cur>> \o Go(SubSeq(rest, 3, Len(rest)), <<>>)
            ELSE Go(Tail(rest), Append(cur, Head(rest)))
    IN  Go(txt, <<>>)

\* pg_indexes: indexname and indexdef of every index of the table; indexdef
\* is CREATE [UNIQUE] INDEX <name> ON <table> USING btree (<text>)
pg_indexes(tbl) ==
    {[indexname |-> ix.name,
      indexdef |-> [unique |-> ix.unique, name |-> ix.name, txt |-> ColumnText(ix.cols)]] :
        ix \in tbl.indexes}

\* line 161: indexdef LIKE '%(%<old_column_name>%)%'
index_refering_column(tbl, old_column_name) ==
    {e \in pg_indexes(tbl) : Contains(e.indexdef.txt, old_column_name)}

\* DROP INDEX IF EXISTS <index_name>
DropIndex(tbl, index_name) ==
    [tbl EXCEPT !.indexes = {ix \in @ : ix.name # index_name}]

\* a row with column old called new
RenameInRow(r, old, new) ==
    [c \in (DOMAIN r \ {old}) \cup (IF old \in DOMAIN r THEN {new} ELSE {}) |->
        IF c = new THEN r[old] ELSE r[c]]

\* ALTER TABLE <table> RENAME COLUMN <old> TO <new>
RenameColumn(tbl, old, new) ==
    IF old \notin tbl.cols \/ new \in tbl.cols THEN Raise(tbl, "ProgrammingError")
    ELSE Ok([exists |-> TRUE,
             cols |-> (tbl.cols \ {old}) \cup {new},
             rows |-> MapBag(tbl.rows, LAMBDA r : RenameInRow(r, old, new)),
             indexes |-> {[ix EXCEPT !.cols = [i \in 1..Len(ix.cols) |->
                                                 IF ix.cols[i] = old THEN new ELSE ix.cols[i]]] :
                            ix \in tbl.indexes}])

\* lines 173-175: the name and the definition under which an index is recreated
new_index_name(index_name, old_column_name, new_column_name) ==
    SubSeq(index_name, 1, 2)
    \o [i \in 1..(Len(index_name) - 2) |->
            ReplaceAll(index_name[i + 2], old_column_name, new_column_name)]

new_index_def(index_name, index_def, old_column_name, new_column_name) ==
    [unique |-> index_def.unique,
     name |-> IF index_def.name = index_name
              THEN new_index_name(index_name, old_column_name, new_column_name)
              ELSE index_def.name,
     txt |-> ReplaceFirst(index_def.txt, old_column_name, new_column_name)]

\* the engine executes an index definition
CreateIndex(tbl, index_def) ==
    LET index == [name |-> index_def.name, cols |-> SplitColumns(index_def.txt),
                  unique |-> index_def.unique]
    IN  IF ~(Range(index.cols) \subseteq tbl.cols) THEN Raise(tbl, "ProgrammingError")
        ELSE IF \E ix \in tbl.indexes : ix.name = index.name THEN Raise(tbl, "ProgrammingError")
        ELSE IF ~IndexAdmits(index, tbl.rows) THEN Raise(tbl, "IntegrityError")
        ELSE Ok([tbl EXCEPT !.indexes = @ \cup {index}])

\* SqlManager.rename_column.  engine_execute is what self.engine.execute of
\* line 162 does: it returns the "rows", or the Engine of the installed
\* SQLAlchemy has no execute ("AttributeError").  found is the dict of line
\* 162 as the sequence of its items.  Every _execute commits on its own.
rename_column(tbl, old_column_name, new_column_name, engine_execute, found) ==
    LET RECURSIVE Drop(_, _)
        Drop(i, t) == IF i > Len(found) THEN t
                      ELSE Drop(i + 1, DropIndex(t, found[i].indexname))
        dropped == Drop(1, tbl)
        renamed == RenameColumn(dropped, old_column_name, new_column_name)
        RECURSIVE Recreate(_, _)
        Recreate(i, t) ==
            IF i > Len(found) THEN Ok(t)
            ELSE LET made == CreateIndex(t, new_index_def(found[i].indexname, found[i].indexdef,
                                                          old_column_name, new_column_name))
                 IN  IF made.raised # "none" THEN made ELSE Recreate(i + 1, made.tbl)
    IN  IF engine_execute = "AttributeError" THEN Raise(tbl, "AttributeError")
        ELSE IF renamed.raised # "none" THEN renamed
        ELSE Recreate(1, renamed.tbl)

\* the ways to list the elements of a set (the order of the rows of a SELECT)
Orders(S) == {f \in [1..Cardinality(S) -> S] : \A i, j \in 1..Cardinality(S) : f[i] = f[j] => i = j}

ColA == <<"a">>
ColAB == <<"a", "b">>
ColC == <<"c">>
ColN == <<"n">>
ColNB == <<"n", "b">>

\* the frames that create the table: an index of one or two levels, one or
\* two rows
RenameIndexNames == {<<ColA>>, <<ColAB>>, <<ColA, ColAB>>, <<ColC, ColA>>}
RenameColumnSets == {{ColC}, {ColAB}, {ColA}, {ColNB, ColC}}
RenameRowValues == {<<"x">>, <<"x", "y">>}
RenameFrames ==
    { [names |-> x[1], cols |-> x[2],
       rows |-> [i \in 1..Len(x[3]) |-> [c \in Range(x[1]) \cup x[2] |-> x[3][i]]]] :
      x \in {y \in RenameIndexNames \X RenameColumnSets \X RenameRowValues :
                Range(y[1]) \cap y[2] = {}} }
RenameOldChoices == {ColA, ColAB, ColC}
RenameNewChoices == {ColN, ColC}
EngineExecuteOutcomes == {"rows", "AttributeError"}

\* insert of a frame that creates the table, perhaps with one more index
CreateForRename ==
    /\ pc = "idle"
    /\ ~db[GenericTable].exists
    /\ ncalls < MaxRenameCalls
    /\ ncalls' = ncalls + 1
    /\ \E df \in RenameFrames, kind \in {"none", "unique", "non_unique"} :
       \E c \in df.cols :
        LET res == insert(db[GenericTable], GenericTable, df, TRUE,
                          IF kind = "unique" THEN <<c>> ELSE <<>>,
                          IF kind = "non_unique" THEN <<c>> ELSE <<>>, "none")
        IN  /\ db' = [db EXCEPT ![GenericTable] = res.tbl]
            /\ hist' = Remember(hist, [op |-> "insert", df |-> df, raised |-> res.raised,
                                       pre |-> db[GenericTable]])
    /\ UNCHANGED <<pc, job, attrs, nmanagers>>

\* one call of rename_column
RenameCall ==
    /\ pc = "idle"
    /\ db[GenericTable].exists
    /\ ncalls < MaxRenameCalls
    /\ ncalls' = ncalls + 1
    /\ \E old \in RenameOldChoices, new \in RenameNewChoices,
          engine_execute \in EngineExecuteOutcomes :
       \E found \in Orders(index_refering_column(db[GenericTable], old)) :
        LET res == rename_column(db[GenericTable], old, new, engine_execute, found)
        IN  /\ db' = [db EXCEPT ![GenericTable] = res.tbl]
            /\ hist' = Remember(hist, [op |-> "rename", old |-> old, new |-> new,
                                       engine_execute |-> engine_execute,
                                       raised |-> res.raised, pre |-> db[GenericTable]])
    /\ UNCHANGED <<pc, job, attrs, nmanagers>>

NextRename == CreateForRename \/ RenameCall

SpecRename == Init /\ [][NextRename]_vars

\* a rename of a column the table has to a name it does not have, the lookup
\* of line 162 having returned
ValidRename ==
    /\ hist # <<>>
    /\ Last.op = "rename"
    /\ Last.engine_execute = "rows"
    /\ Last.old \in Last.pre.cols
    /\ Last.new \notin Last.pre.cols
    /\ Last.new # Last.old

\* index ix with column old called new, in the same position
Renamed(ix, old, new) ==
    [i \in 1..Len(ix.cols) |-> IF ix.cols[i] = old THEN new ELSE ix.cols[i]]

\* C13: after rename_column every index that referenced old exists referencing
\* new in the same position with the same uniqueness, no index references
\* old, and every index that did not reference old is as it was
C13_RenameKeepsIndexes ==
    ValidRename =>
        LET before == Last.pre.indexes
            after == db[GenericTable].indexes
        IN  /\ \A ix \in before : Last.old \in Range(ix.cols) =>
                  \E jx \in after : /\ jx.cols = Renamed(ix, Last.old, Last.new)
                                    /\ jx.unique = ix.unique
            /\ \A jx \in after : Last.old \notin Range(jx.cols)
            /\ \A ix \in before : Last.old \notin Range(ix.cols) => ix \in after

\* C16: a rename_column that ends by an error leaves the table as it was
\* before the call, the column under its old name and every index in place
C16_RenameIsOneTransaction ==
    (hist # <<>> /\ Last.op = "rename" /\ Last.new # Last.old /\ Last.raised # "none") =>
        db[GenericTable] = Last.pre

====
